---------------------------- MODULE Spec2Model ----------------------------
(***************************************************************************)
(* A model of src/main.py: the FastAPI application with the report         *)
(* generator (POST /generate-report) and the database probe (GET /test).   *)
(*                                                                         *)
(* Python strings that the code inspects or rewrites (filenames, paths,    *)
(* section bodies, markup) are sequences of one-character strings, so that *)
(* lower(), endswith(), replace(), os.path.join and slicing are computed   *)
(* character by character.  The status texts of the probe are whole TLA+   *)
(* strings; their leading emoji are written as the ASCII tags (ok), (x)    *)
(* and (!).                                                                *)
(***************************************************************************)
EXTENDS Integers, Sequences, FiniteSets, TLC

VARIABLES
    req,        \* generate_report: per in-flight request, its locals and position
    dirs,       \* the directories that exist (each a sequence of path components)
    files,      \* the regular files that exist: resolved path -> data
    lastDone,   \* history: resolved path -> data of the build that finished last
    probe,      \* test_database: its locals and position
    environ,    \* os.environ, the two variables the probe reads
    database    \* what "from database import db" finds

vars == <<req, dirs, files, lastDone, probe, environ, database>>

----------------------------------------------------------------------------
(* Bounds of the model *)

\* number of generate_report requests that may be in flight together
NumReq == 2
\* longest filename drawn character by character
MaxNameLen == 4
\* longest section_body drawn character by character
MaxBodyLen == 4
\* most collections list_collection_names returns
MaxColls == 11
\* longest exception message of the probe
MaxErrLen == 51

----------------------------------------------------------------------------
(* Program constants *)

\* pages: int = Field(default=80, ge=1, le=200)
DefaultPages == 80
MinPages == 1
MaxPages == 200
\* collections[:10]
CollsShown == 10
\* str(e)[:50]
ErrShown == 50

\* title: str = Field(default=...)
DefaultTitle ==
    <<"S","e","m","i","n","a","r"," ","R","e","p","o","r","t",":"," ","T",
      "h","e"," ","W","e","b"," ","(","W","o","r","l","d"," ","W","i","d",
      "e"," ","W","e","b",")">>

\* section_title: str = Field(default=...)
DefaultSectionTitle ==
    <<"C","h","a","p","t","e","r",":"," ","T","h","e"," ","E","v","o","l",
      "u","t","i","o","n"," ","o","f"," ","t","h","e"," ","W","e","b">>

\* section_body: str = Field(default=(...))
DefaultSectionBody ==
    <<"T","h","e"," ","W","e","b"," ","h","a","s"," ","e","v","o","l","v",
      "e","d"," ","f","r","o","m"," ","a"," ","c","o","l","l","e","c","t",
      "i","o","n"," ","o","f"," ","s","t","a","t","i","c"," ","d","o","c",
      "u","m","e","n","t","s"," ","i","n","t","o"," ","a"," ","d","y","n",
      "a","m","i","c",","," ","i","n","t","e","r","a","c","t","i","v","e",
      ","," ","a","n","d"," ","i","n","t","e","l","l","i","g","e","n","t",
      " ","e","c","o","s","y","s","t","e","m",".","\n","I","t"," ","s","t",
      "a","r","t","e","d"," ","w","i","t","h"," ","W","e","b"," ","1",".",
      "0",","," ","p","r","i","m","a","r","i","l","y"," ","f","o","c","u",
      "s","e","d"," ","o","n"," ","s","t","a","t","i","c"," ","p","a","g",
      "e","s",","," ","p","r","o","g","r","e","s","s","e","d"," ","i","n",
      "t","o"," ","W","e","b"," ","2",".","0"," ","c","h","a","r","a","c",
      "t","e","r","i","z","e","d"," ","b","y"," ","u","s","e","r","-","g",
      "e","n","e","r","a","t","e","d"," ","c","o","n","t","e","n","t"," ",
      "a","n","d"," ","s","o","c","i","a","l"," ","p","l","a","t","f","o",
      "r","m","s",","," ","a","n","d"," ","i","s"," ","c","u","r","r","e",
      "n","t","l","y"," ","t","r","a","n","s","i","t","i","o","n","i","n",
      "g"," ","i","n","t","o"," ","W","e","b"," ","3",".","0",","," ","w",
      "h","i","c","h"," ","e","m","p","h","a","s","i","z","e","s"," ","d",
      "e","c","e","n","t","r","a","l","i","z","a","t","i","o","n",","," ",
      "s","e","c","u","r","i","t","y",","," ","t","r","u","s","t","l","e",
      "s","s"," ","s","y","s","t","e","m","s",","," ","s","e","m","a","n",
      "t","i","c"," ","u","n","d","e","r","s","t","a","n","d","i","n","g",
      ","," ","a","n","d"," ","i","m","m","e","r","s","i","v","e"," ","d",
      "i","g","i","t","a","l"," ","e","x","p","e","r","i","e","n","c","e",
      "s",".","\n","\n","T","h","e"," ","W","e","b"," ","c","o","n","t","i",
      "n","u","e","s"," ","t","o"," ","b","e"," ","t","h","e"," ","b","a",
      "c","k","b","o","n","e"," ","o","f"," ","t","h","e"," ","d","i","g",
      "i","t","a","l"," ","e","r","a",","," ","e","n","a","b","l","i","n",
      "g"," ","c","o","m","m","u","n","i","c","a","t","i","o","n",","," ",
      "b","u","s","i","n","e","s","s",","," ","e","n","t","e","r","t","a",
      "i","n","m","e","n","t",","," ","a","n","d"," ","g","l","o","b","a",
      "l"," ","c","o","n","n","e","c","t","i","v","i","t","y",".","\n","D",
      "e","t","a","i","l","e","d"," ","s","t","u","d","i","e","s"," ","s",
      "h","o","w"," ","t","h","a","t"," ","t","h","e"," ","f","u","t","u",
      "r","e"," ","W","e","b"," ","w","i","l","l"," ","i","n","t","e","g",
      "r","a","t","e"," ","A","I",","," ","b","l","o","c","k","c","h","a",
      "i","n",","," ","e","d","g","e"," ","c","o","m","p","u","t","i","n",
      "g",","," ","a","n","d"," ","m","i","x","e","d"," ","r","e","a","l",
      "i","t","y"," ","t","e","c","h","n","o","l","o","g","i","e","s",".">>

\* filename: Optional[str] = Field(default="Web_Seminar_Report_80Pages.pdf")
DefaultFilename ==
    <<"W","e","b","_","S","e","m","i","n","a","r","_","R","e","p","o","r",
      "t","_","8","0","P","a","g","e","s",".","p","d","f">>

\* the literal of: payload.filename or "Web_Seminar_Report_80Pages.pdf"
FallbackName ==
    <<"W","e","b","_","S","e","m","i","n","a","r","_","R","e","p","o","r",
      "t","_","8","0","P","a","g","e","s",".","p","d","f">>

\* ".pdf"
PdfExt ==
    <<".","p","d","f">>

\* out_dir = "/mnt/data"
OutDir ==
    <<"/","m","n","t","/","d","a","t","a">>

\* '<br/>', the second argument of replace
BrMarkup ==
    <<"<","b","r","/",">">>

\* intro_text, the f-string before {payload.title}
IntroHead ==
    <<"\n"," "," "," "," "," "," "," "," ","<","b",">">>

\* intro_text, the f-string after {payload.title}
IntroTail ==
    <<"<","/","b",">","<","b","r","/",">","<","b","r","/",">","\n"," "," ",
      " "," "," "," "," "," ","T","h","i","s"," ","r","e","p","o","r","t",
      " ","p","r","o","v","i","d","e","s"," ","a","n"," ","e","x","t","e",
      "n","s","i","v","e"," ","a","n","a","l","y","s","i","s"," ","o","f",
      " ","t","h","e"," ","W","e","b",","," ","i","t","s"," ","e","v","o",
      "l","u","t","i","o","n",","," ","a","r","c","h","i","t","e","c","t",
      "u","r","e",","," ","t","e","c","h","n","o","l","o","g","i","e","s",
      ","," ","a","p","p","l","i","c","a","t","i","o","n","s",","," ","a",
      "n","d"," ","f","u","t","u","r","e"," ","t","r","e","n","d","s",".",
      "\n"," "," "," "," "," "," "," "," ">>

\* section_html, the f-string before {payload.section_title}
SectionHead ==
    <<"\n"," "," "," "," "," "," "," "," ","<","b",">">>

\* section_html, between {payload.section_title} and the body
SectionMid ==
    <<"<","/","b",">","<","b","r","/",">","<","b","r","/",">","\n"," "," ",
      " "," "," "," "," "," ">>

\* section_html, the f-string after the body
SectionTail ==
    <<"\n"," "," "," "," "," "," "," "," ">>

----------------------------------------------------------------------------
(* Python's string operations, on sequences of characters *)

Uppers ==
    <<"A","B","C","D","E","F","G","H","I","J","K","L","M",
      "N","O","P","Q","R","S","T","U","V","W","X","Y","Z">>

Lowers ==
    <<"a","b","c","d","e","f","g","h","i","j","k","l","m",
      "n","o","p","q","r","s","t","u","v","w","x","y","z">>

\* str.lower() of one character
LowerChar(c) ==
    IF \E i \in DOMAIN Uppers : Uppers[i] = c
    THEN Lowers[CHOOSE i \in DOMAIN Uppers : Uppers[i] = c]
    ELSE c

\* s.lower()
Lower(s) == [i \in 1..Len(s) |-> LowerChar(s[i])]

\* s.endswith(suffix)
EndsWith(s, suffix) ==
    /\ Len(s) >= Len(suffix)
    /\ SubSeq(s, Len(s) - Len(suffix) + 1, Len(s)) = suffix

\* a replace that stops after the first occurrence (s.replace(old, new, 1))
ReplaceFirst(s, old, new) ==
    IF \E i \in 1..Len(s) : s[i] = old
    THEN LET i == CHOOSE k \in 1..Len(s) :
                      s[k] = old /\ \A j \in 1..(k - 1) : s[j] # old
         IN  SubSeq(s, 1, i - 1) \o new \o SubSeq(s, i + 1, Len(s))
    ELSE s

\* s.replace(old, new) for a one-character old: every occurrence is replaced
\* and every other character kept, in order.  The scan is written by halves
\* (an occurrence of one character never straddles the cut).
RECURSIVE Replace(_, _, _)
Replace(s, old, new) ==
    IF Len(s) = 0 THEN <<>>
    ELSE IF Len(s) = 1 THEN (IF s[1] = old THEN new ELSE s)
    ELSE LET half == Len(s) \div 2
         IN  Replace(SubSeq(s, 1, half), old, new)
                 \o Replace(SubSeq(s, half + 1, Len(s)), old, new)

\* s[:n]
Slice(s, n) == SubSeq(s, 1, IF Len(s) < n THEN Len(s) ELSE n)

----------------------------------------------------------------------------
(* The request schema *)

\* a JSON field that the body leaves out, sets to null, or sets to a value
Omitted == [kind |-> "omitted"]
Null == [kind |-> "null"]
Str(s) == [kind |-> "str", val |-> s]
Num(n) == [kind |-> "int", val |-> n]

\* ReportRequest(**body): each field or its default
ReportRequest(body) ==
    [title         |-> IF body.title.kind = "omitted"
                       THEN DefaultTitle ELSE body.title.val,
     pages         |-> IF body.pages.kind = "omitted"
                       THEN DefaultPages ELSE body.pages.val,
     section_title |-> IF body.section_title.kind = "omitted"
                       THEN DefaultSectionTitle ELSE body.section_title.val,
     section_body  |-> IF body.section_body.kind = "omitted"
                       THEN DefaultSectionBody ELSE body.section_body.val,
     filename      |-> IF body.filename.kind = "omitted"
                       THEN Str(DefaultFilename) ELSE body.filename]

\* a schema that forgets ge=1
PagesValidNoFloor(pages) == pages <= MaxPages

\* Field(ge=1, le=200) on pages
PagesValid(pages) == pages >= MinPages /\ pages <= MaxPages

----------------------------------------------------------------------------
(* generate_report: the content list *)

Paragraph(text, style) == [flowable |-> "Paragraph", text |-> text, style |-> style]

PageBreak == [flowable |-> "PageBreak", text |-> <<>>, style |-> "none"]

\* intro_text
IntroText(payload) == IntroHead \o payload.title \o IntroTail

\* section_html
SectionHtml(payload) ==
    SectionHead \o payload.section_title \o SectionMid
        \o Replace(payload.section_body, "\n", BrMarkup) \o SectionTail

\* a loop count without the floor of one round
PagesToAddNoFloor(pages) == pages - 1

\* pages_to_add = max(payload.pages - 1, 1)
PagesToAdd(pages) == IF pages - 1 > 1 THEN pages - 1 ELSE 1

\* what n rounds of the loop append:
\* for _ in range(n): content.append(Paragraph(...)); content.append(PageBreak())
\* (n rounds are n \div 2 rounds followed by the other n - n \div 2)
RECURSIVE Rounds(_, _)
Rounds(n, section_html) ==
    IF n <= 0 THEN <<>>
    ELSE IF n = 1 THEN <<Paragraph(section_html, "Body"), PageBreak>>
    ELSE Rounds(n \div 2, section_html) \o Rounds(n - n \div 2, section_html)

\* the content list as it stands after the loop
Content(payload) ==
    <<Paragraph(IntroText(payload), "Title"), PageBreak>>
        \o Rounds(PagesToAdd(payload.pages), SectionHtml(payload))

----------------------------------------------------------------------------
(* generate_report: the output path *)

\* a resolution that compares the extension case-sensitively
SafeNameCaseSensitive(filename) ==
    LET name == IF filename.kind = "str" /\ filename.val # <<>>
                THEN filename.val ELSE FallbackName
    IN  IF ~EndsWith(name, PdfExt) THEN name \o PdfExt ELSE name

\* a resolution that falls back on None only ("is None" instead of "or")
SafeNameNoneOnly(filename) ==
    LET name == IF filename.kind = "str" THEN filename.val ELSE FallbackName
    IN  IF ~EndsWith(Lower(name), PdfExt) THEN name \o PdfExt ELSE name

\* safe_name: payload.filename or the fallback, with ".pdf" appended unless
\* its lower-case form ends in ".pdf"
SafeName(filename) ==
    LET name == IF filename.kind = "str" /\ filename.val # <<>>
                THEN filename.val ELSE FallbackName
    IN  IF ~EndsWith(Lower(name), PdfExt) THEN name \o PdfExt ELSE name

\* os.path.join(a, b): an absolute b discards a
PathJoin(a, b) ==
    IF b # <<>> /\ Head(b) = "/" THEN b
    ELSE IF a = <<>> \/ a[Len(a)] = "/" THEN a \o b
    ELSE a \o <<"/">> \o b

\* the components of a path: what stands between its "/"
RECURSIVE SplitFrom(_, _, _)
SplitFrom(path, i, cur) ==
    LET done == IF cur = <<>> THEN <<>> ELSE <<cur>>
    IN  IF i > Len(path) THEN done
        ELSE IF path[i] = "/" THEN done \o SplitFrom(path, i + 1, <<>>)
        ELSE SplitFrom(path, i + 1, Append(cur, path[i]))

Components(path) == SplitFrom(path, 1, <<>>)

Parent(dir) == IF dir = <<>> THEN <<>> ELSE SubSeq(dir, 1, Len(dir) - 1)

\* the kernel's walk of an absolute path from the root <<>>: "." stays, ".."
\* goes up, a name goes down into a directory of D; the last name is the file
RECURSIVE Walk(_, _, _)
Walk(comps, cur, D) ==
    IF comps = <<>> THEN [ok |-> TRUE, path |-> cur]
    ELSE LET c == Head(comps)
             rest == Tail(comps)
         IN  IF c = <<".">> THEN Walk(rest, cur, D)
             ELSE IF c = <<".", ".">> THEN Walk(rest, Parent(cur), D)
             ELSE IF rest = <<>> THEN [ok |-> TRUE, path |-> Append(cur, c)]
             ELSE IF Append(cur, c) \in D THEN Walk(rest, Append(cur, c), D)
             ELSE [ok |-> FALSE, path |-> <<>>]

\* where open(file_path, "wb") lands, given the directories that exist
Resolve(file_path, D) == Walk(Components(file_path), <<>>, D)

\* os.makedirs(out_dir, exist_ok=True): out_dir and its missing parents
RECURSIVE Ancestors(_)
Ancestors(dir) == IF dir = <<>> THEN {<<>>} ELSE {dir} \cup Ancestors(Parent(dir))

MakeDirsResult(D, out_dir) == D \cup Ancestors(Components(out_dir))

----------------------------------------------------------------------------
(* Exceptions *)

\* the base class of each exception class the model raises
Base(cls) ==
    CASE cls = "ModuleNotFoundError" -> "ImportError"
      [] cls = "FileNotFoundError"   -> "OSError"
      [] cls = "IsADirectoryError"   -> "OSError"
      [] cls = "PermissionError"     -> "OSError"
      [] cls = "Exception"           -> "BaseException"
      [] cls = "BaseException"       -> "object"
      [] OTHER                       -> "Exception"

\* isinstance(e, handler), which decides whether "except handler" takes e
RECURSIVE IsInstance(_, _)
IsInstance(cls, handler) ==
    IF cls = handler THEN TRUE
    ELSE IF cls = "object" THEN FALSE
    ELSE IsInstance(Base(cls), handler)

NoExc == [cls |-> "none", msg |-> <<>>]

\* str(e)
StrOf(e) == e.msg

\* what the environment can raise at each place of generate_report
Fault(stage) ==
    CASE stage = "import"   -> [cls |-> "ModuleNotFoundError", msg |-> <<"n","o"," ","l","i","b">>]
      [] stage = "content"  -> [cls |-> "ValueError", msg |-> <<"b","a","d"," ","t","a","g">>]
      [] stage = "makedirs" -> [cls |-> "PermissionError", msg |-> <<"E","A","C","C","E","S">>]
      [] stage = "build"    -> [cls |-> "LayoutError", msg |-> <<"t","o","o"," ","l","a","r","g","e">>]
      [] stage = "write"    -> [cls |-> "OSError", msg |-> <<"E","N","O","S","P","C">>]

FaultStages == {"import", "content", "makedirs", "build", "write"}

\* open() of a path whose directory is missing, or that is a directory
OpenError(file_path, isDir) ==
    [cls |-> IF isDir THEN "IsADirectoryError" ELSE "FileNotFoundError",
     msg |-> <<"E","R","R",":"," ">> \o file_path]

----------------------------------------------------------------------------
(* generate_report: the handler, step by step *)

Reqs == 1..NumReq

NoField == [kind |-> "omitted"]

NoBody ==
    [title |-> NoField, pages |-> NoField, section_title |-> NoField,
     section_body |-> NoField, filename |-> NoField]

NoPayload ==
    [title |-> <<>>, pages |-> 0, section_title |-> <<>>,
     section_body |-> <<>>, filename |-> Null]

NoResponse == [code |-> 0, status |-> "none", file_path |-> <<>>, detail |-> <<>>]

\* return {"status": "ok", "file_path": file_path}
OkResponse(file_path) ==
    [code |-> 200, status |-> "ok", file_path |-> file_path, detail |-> <<>>]

\* HTTPException(status_code=500, detail=str(e))
HTTPException(status_code, detail) ==
    [code |-> status_code, status |-> "error", file_path |-> <<>>, detail |-> detail]

\* the framework's answer to a body that fails the schema
ValidationError == [code |-> 422, status |-> "error", file_path |-> <<>>, detail |-> <<>>]

\* the locals of one call: fd is the resolved path of the file doc.build has
\* open, exc the exception in flight, at the place where the body was left
Idle ==
    [pc |-> "idle", body |-> NoBody, payload |-> NoPayload, content |-> <<>>,
     safe_name |-> <<>>, file_path |-> <<>>, fd |-> <<>>, exc |-> NoExc,
     at |-> "none",
     response |-> NoResponse]

Arrived(body) == [Idle EXCEPT !.pc = "validate", !.body = body]

ProbeVarsUnchanged == UNCHANGED <<probe, environ, database>>

\* a POST /generate-report arrives
Receive(r, body) ==
    /\ req[r].pc = "idle"
    /\ req' = [req EXCEPT ![r] = Arrived(body)]
    /\ UNCHANGED <<dirs, files, lastDone>>
    /\ ProbeVarsUnchanged

\* the framework builds payload: ReportRequest from the body and calls the
\* handler only if the schema accepts it
Validate(r) ==
    /\ req[r].pc = "validate"
    /\ LET payload == ReportRequest(req[r].body)
       IN  IF PagesValid(payload.pages)
           THEN req' = [req EXCEPT ![r].payload = payload, ![r].pc = "import"]
           ELSE req' = [req EXCEPT ![r].response = ValidationError,
                                   ![r].at = "validate", ![r].pc = "done"]
    /\ UNCHANGED <<dirs, files, lastDone>>
    /\ ProbeVarsUnchanged

\* from reportlab... import ...
ImportLibs(r) ==
    /\ req[r].pc = "import"
    /\ req' = [req EXCEPT ![r].pc = "content"]
    /\ UNCHANGED <<dirs, files, lastDone>>
    /\ ProbeVarsUnchanged

\* styles, content = [], the title block, section_html and the loop
BuildContent(r) ==
    /\ req[r].pc = "content"
    /\ req' = [req EXCEPT ![r].content = Content(req[r].payload), ![r].pc = "name"]
    /\ UNCHANGED <<dirs, files, lastDone>>
    /\ ProbeVarsUnchanged

\* safe_name = payload.filename or ...; if not ...endswith(".pdf"): += ".pdf"
ResolveName(r) ==
    /\ req[r].pc = "name"
    /\ req' = [req EXCEPT ![r].safe_name = SafeName(req[r].payload.filename),
                          ![r].pc = "makedirs"]
    /\ UNCHANGED <<dirs, files, lastDone>>
    /\ ProbeVarsUnchanged

\* os.makedirs(out_dir, exist_ok=True); file_path = os.path.join(out_dir, safe_name)
MakeDirs(r) ==
    /\ req[r].pc = "makedirs"
    /\ dirs' = MakeDirsResult(dirs, OutDir)
    /\ req' = [req EXCEPT ![r].file_path = PathJoin(OutDir, req[r].safe_name),
                          ![r].pc = "build"]
    /\ UNCHANGED <<files, lastDone>>
    /\ ProbeVarsUnchanged

\* the document's data, one element per laid-out block
PdfData(content) ==
    LET blocks == SelectSeq(content, LAMBDA x : x.flowable = "Paragraph")
    IN  [i \in 1..Len(blocks) |-> blocks[i].text]

\* doc.build(content), first half: the document is laid out and file_path is
\* opened "wb", which creates the file or truncates it.  Nothing in the
\* handler keeps another request from doing the same in between.
OpenFile(r) ==
    /\ req[r].pc = "build"
    /\ LET at == Resolve(req[r].file_path, dirs)
       IN  IF at.ok /\ at.path \notin dirs
           THEN /\ files' = (at.path :> <<>>) @@ files
                /\ req' = [req EXCEPT ![r].fd = at.path, ![r].pc = "write"]
           ELSE /\ files' = files
                /\ req' = [req EXCEPT
                             ![r].exc = OpenError(req[r].file_path, at.ok),
                             ![r].at = "build", ![r].pc = "except"]
    /\ UNCHANGED <<dirs, lastDone>>
    /\ ProbeVarsUnchanged

\* a write of data at offset 0 of a file that holds old
Overwrite(old, data) == data \o SubSeq(old, Len(data) + 1, Len(old))

\* doc.build(content), second half: the bytes are written at offset 0 of the
\* open file and it is closed; return {"status": "ok", ...}
WriteFile(r) ==
    /\ req[r].pc = "write"
    /\ LET data == PdfData(req[r].content)
           path == req[r].fd
       IN  /\ files' = [files EXCEPT ![path] = Overwrite(files[path], data)]
           /\ lastDone' = (path :> [data |-> data, clean |-> TRUE]) @@ lastDone
    /\ req' = [req EXCEPT ![r].response = OkResponse(req[r].file_path),
                          ![r].at = "return", ![r].pc = "done"]
    /\ UNCHANGED dirs
    /\ ProbeVarsUnchanged

\* a statement inside the try raises
Raise(r) ==
    /\ req[r].pc \in FaultStages
    /\ req' = [req EXCEPT ![r].exc = Fault(req[r].pc), ![r].at = req[r].pc,
                          ![r].pc = "except"]
    /\ lastDone' = IF req[r].pc = "write" /\ req[r].fd \in DOMAIN lastDone
                   THEN [lastDone EXCEPT ![req[r].fd].clean = FALSE]
                   ELSE lastDone
    /\ UNCHANGED <<dirs, files>>
    /\ ProbeVarsUnchanged

\* a handler that takes OSError only ("except OSError as e")
ExceptOSErrorOnly(r) ==
    /\ req[r].pc = "except"
    /\ IF IsInstance(req[r].exc.cls, "OSError")
       THEN req' = [req EXCEPT ![r].response = HTTPException(500, StrOf(req[r].exc)),
                               ![r].pc = "done"]
       ELSE req' = [req EXCEPT ![r].pc = "crashed"]
    /\ UNCHANGED <<dirs, files, lastDone>>
    /\ ProbeVarsUnchanged

\* except Exception as e: raise HTTPException(status_code=500, detail=str(e))
Except(r) ==
    /\ req[r].pc = "except"
    /\ IF IsInstance(req[r].exc.cls, "Exception")
       THEN req' = [req EXCEPT ![r].response = HTTPException(500, StrOf(req[r].exc)),
                               ![r].pc = "done"]
       ELSE req' = [req EXCEPT ![r].pc = "crashed"]
    /\ UNCHANGED <<dirs, files, lastDone>>
    /\ ProbeVarsUnchanged

\* the response is sent; the worker is free for the next request
Finish(r) ==
    /\ req[r].pc = "done"
    /\ req' = [req EXCEPT ![r] = Idle]
    /\ UNCHANGED <<dirs, files, lastDone>>
    /\ ProbeVarsUnchanged

Handle(r) ==
    \/ Validate(r)
    \/ ImportLibs(r)
    \/ BuildContent(r)
    \/ ResolveName(r)
    \/ MakeDirs(r)
    \/ OpenFile(r)
    \/ WriteFile(r)
    \/ Raise(r)
    \/ Except(r)

----------------------------------------------------------------------------
(* test_database: the handler of GET /test, step by step *)

\* a truthy Optional[str]: neither None nor ""
Truthy(v) == v.kind = "str" /\ v.val # <<>>

\* os.getenv(name)
Getenv(name) == IF name \in DOMAIN environ THEN Str(environ[name]) ELSE Null

\* a status text: an f-string's literal part and the str(e)[:50] it embeds
Text(literal) == [text |-> literal, err |-> <<>>]

ErrText(literal, e) == [text |-> literal, err |-> Slice(StrOf(e), ErrShown)]

\* response = {...}, the dict as first assigned
InitialResponse ==
    [backend           |-> "(ok) Running",
     database          |-> Text("(x) Not Available"),
     database_url      |-> "None",
     database_name     |-> "None",
     connection_status |-> "Not Connected",
     collections       |-> <<>>]

ProbeIdle == [pc |-> "start", response |-> InitialResponse]

ReportVarsUnchanged == UNCHANGED <<req, dirs, files, lastDone>>

\* response = {...}
ProbeStart ==
    /\ probe.pc = "start"
    /\ probe' = [pc |-> "import", response |-> InitialResponse]
    /\ ReportVarsUnchanged
    /\ UNCHANGED <<environ, database>>

\* from database import db, the branch on db, and the two outer handlers
ProbeImport ==
    /\ probe.pc = "import"
    /\ LET e == database.import_exc
           resp == probe.response
       IN  IF e # NoExc
           THEN IF IsInstance(e.cls, "ImportError")
                THEN probe' = [pc |-> "env",
                               response |-> [resp EXCEPT !.database =
                                   Text("(x) Database module not found (run enable-database first)")]]
                ELSE IF IsInstance(e.cls, "Exception")
                THEN probe' = [pc |-> "env",
                               response |-> [resp EXCEPT !.database =
                                   ErrText("(x) Error: ", e)]]
                ELSE probe' = [pc |-> "raised", response |-> resp]
           ELSE IF database.db_none
           THEN probe' = [pc |-> "env",
                          response |-> [resp EXCEPT !.database =
                              Text("(!)  Available but not initialized")]]
           ELSE probe' = [pc |-> "list",
                          response |-> [resp EXCEPT
                              !.database = Text("(ok) Available"),
                              !.database_url = "(ok) Configured",
                              !.database_name = IF database.has_name
                                                THEN database.name
                                                ELSE "(ok) Connected",
                              !.connection_status = "Connected"]]
    /\ ReportVarsUnchanged
    /\ UNCHANGED <<environ, database>>

\* a probe without the inner try: a listing failure reaches "except Exception"
ProbeListNoInnerTry ==
    /\ probe.pc = "list"
    /\ LET e == database.list_exc
           resp == probe.response
       IN  IF e = NoExc
           THEN probe' = [pc |-> "env",
                          response |-> [resp EXCEPT
                              !.collections = Slice(database.collections, CollsShown),
                              !.database = Text("(ok) Connected & Working")]]
           ELSE IF IsInstance(e.cls, "Exception")
           THEN probe' = [pc |-> "env",
                          response |-> [resp EXCEPT !.database =
                              ErrText("(x) Error: ", e)]]
           ELSE probe' = [pc |-> "raised", response |-> resp]
    /\ ReportVarsUnchanged
    /\ UNCHANGED <<environ, database>>

\* collections = db.list_collection_names() and the inner handler
ProbeList ==
    /\ probe.pc = "list"
    /\ LET e == database.list_exc
           resp == probe.response
       IN  IF e = NoExc
           THEN probe' = [pc |-> "env",
                          response |-> [resp EXCEPT
                              !.collections = Slice(database.collections, CollsShown),
                              !.database = Text("(ok) Connected & Working")]]
           ELSE IF IsInstance(e.cls, "Exception")
           THEN probe' = [pc |-> "env",
                          response |-> [resp EXCEPT !.database =
                              ErrText("(!)  Connected but Error: ", e)]]
           ELSE probe' = [pc |-> "raised", response |-> resp]
    /\ ReportVarsUnchanged
    /\ UNCHANGED <<environ, database>>

\* a probe that fills the two fields only where nothing was assigned before
ProbeEnvKeep ==
    /\ probe.pc = "env"
    /\ probe' = [pc |-> "done",
                 response |-> [probe.response EXCEPT
                     !.database_url = IF probe.response.database_url # "None"
                                      THEN probe.response.database_url
                                      ELSE IF Truthy(Getenv("DATABASE_URL"))
                                      THEN "(ok) Set" ELSE "(x) Not Set",
                     !.database_name = IF probe.response.database_name # "None"
                                       THEN probe.response.database_name
                                       ELSE IF Truthy(Getenv("DATABASE_NAME"))
                                       THEN "(ok) Set" ELSE "(x) Not Set"]]
    /\ ReportVarsUnchanged
    /\ UNCHANGED <<environ, database>>

\* the two environment variables are checked; return response
ProbeEnv ==
    /\ probe.pc = "env"
    /\ probe' = [pc |-> "done",
                 response |-> [probe.response EXCEPT
                     !.database_url = IF Truthy(Getenv("DATABASE_URL"))
                                      THEN "(ok) Set" ELSE "(x) Not Set",
                     !.database_name = IF Truthy(Getenv("DATABASE_NAME"))
                                       THEN "(ok) Set" ELSE "(x) Not Set"]]
    /\ ReportVarsUnchanged
    /\ UNCHANGED <<environ, database>>

----------------------------------------------------------------------------
(* The inputs of the model *)

\* all sequences over chars of length at most n
RECURSIVE SeqsUpTo(_, _)
SeqsUpTo(chars, n) ==
    IF n = 0 THEN {<<>>}
    ELSE LET shorter == SeqsUpTo(chars, n - 1)
         IN  shorter \cup {Append(s, c) : s \in shorter, c \in chars}

Msg(n) == [i \in 1..n |-> "e"]

ErrLens == {1, ErrShown, MaxErrLen}

ImportExcs ==
    {[cls |-> c, msg |-> Msg(n)] :
        c \in {"ModuleNotFoundError", "ImportError", "RuntimeError"}, n \in ErrLens}

ListExcs ==
    {[cls |-> c, msg |-> Msg(n)] : c \in {"ServerSelectionTimeoutError", "TypeError"},
                                   n \in ErrLens}

NoDatabase ==
    [import_exc |-> NoExc, db_none |-> TRUE, has_name |-> FALSE, name |-> "none",
     list_exc |-> NoExc, collections |-> <<>>]

Databases ==
    {[NoDatabase EXCEPT !.import_exc = e] : e \in ImportExcs}
    \cup {NoDatabase}
    \cup {[NoDatabase EXCEPT !.db_none = FALSE, !.has_name = h, !.name = "appdb",
                             !.list_exc = e] : h \in BOOLEAN, e \in ListExcs}
    \cup {[NoDatabase EXCEPT !.db_none = FALSE, !.has_name = h, !.name = "appdb",
                             !.collections = [i \in 1..n |-> i]] :
             h \in BOOLEAN, n \in 0..MaxColls}

EnvNames == {"DATABASE_URL", "DATABASE_NAME"}

Environs == UNION {[S -> {<<>>, <<"x">>}] : S \in SUBSET EnvNames}

RootOnly == {<<>>}

WithOutDir == MakeDirsResult(RootOnly, OutDir)

ShortBody ==
    [title |-> Str(<<"T">>), pages |-> Num(1), section_title |-> Str(<<"S">>),
     section_body |-> Str(<<"x", "\n", "y">>), filename |-> Omitted]

\* bodies of requests that run together: two lengths, two spellings of one name
ConcBodies ==
    {[ShortBody EXCEPT !.pages = Num(p), !.filename = Str(f)] :
        p \in {1, 3}, f \in {<<"a">>, <<"a", ".", "p", "d", "f">>}}

\* every pages value around the accepted range, and none
PageBodies ==
    {[ShortBody EXCEPT !.pages = p] :
        p \in {Omitted} \cup {Num(n) : n \in (MinPages - 2)..(MaxPages + 2)}}

NameChars == {".", "/", "p", "d", "f", "P"}

NameExamples ==
    {<<"r","e","p","o","r","t">>, <<"r","e","p","o","r","t",".","p","d","f">>,
     <<"R",".","P","D","F">>, <<"a","/","b">>, <<".",".","/",".",".","/","e">>}

NameBodies ==
    {[ShortBody EXCEPT !.filename = f] :
        f \in {Omitted, Null}
              \cup {Str(s) : s \in SeqsUpTo(NameChars, MaxNameLen) \cup NameExamples}}

BodyChars == {"\n", "a", "<"}

TextBodies ==
    {[ShortBody EXCEPT !.section_body = b] :
        b \in {Omitted} \cup {Str(s) : s \in SeqsUpTo(BodyChars, MaxBodyLen)}}

----------------------------------------------------------------------------
(* Specifications *)

InitReport(bodies) ==
    /\ \E b \in bodies : req = [r \in Reqs |-> IF r = 1 THEN Arrived(b) ELSE Idle]
    /\ dirs \in {RootOnly, WithOutDir}
    /\ files = <<>>
    /\ lastDone = <<>>
    /\ probe = ProbeIdle
    /\ environ = <<>>
    /\ database = NoDatabase

\* requests arrive at any time and run interleaved
Init ==
    /\ req = [r \in Reqs |-> Idle]
    /\ dirs = RootOnly
    /\ files = <<>>
    /\ lastDone = <<>>
    /\ probe = ProbeIdle
    /\ environ = <<>>
    /\ database = NoDatabase

Next ==
    \E r \in Reqs :
        \/ \E b \in ConcBodies : Receive(r, b)
        \/ Handle(r)
        \/ Finish(r)

Spec == Init /\ [][Next]_vars

\* one request, handled to its end
NextOnce == \E r \in Reqs : Handle(r)

InitPages == InitReport(PageBodies)

SpecPages == InitPages /\ [][NextOnce]_vars

InitNames == InitReport(NameBodies)

SpecNames == InitNames /\ [][NextOnce]_vars

InitText == InitReport(TextBodies)

SpecText == InitText /\ [][NextOnce]_vars

\* one GET /test, in every environment
InitProbe ==
    /\ req = [r \in Reqs |-> Idle]
    /\ dirs = RootOnly
    /\ files = <<>>
    /\ lastDone = <<>>
    /\ probe = ProbeIdle
    /\ environ \in Environs
    /\ database \in Databases

NextProbe == ProbeStart \/ ProbeImport \/ ProbeList \/ ProbeEnv

SpecProbe == InitProbe /\ [][NextProbe]_vars

----------------------------------------------------------------------------
(* Properties *)

\* the order of the handler's places
Rank(pc) ==
    CASE pc = "idle"     -> 0
      [] pc = "validate" -> 1
      [] pc = "import"   -> 2
      [] pc = "content"  -> 3
      [] pc = "name"     -> 4
      [] pc = "makedirs" -> 5
      [] pc = "build"    -> 6
      [] pc = "write"    -> 7
      [] pc = "return"   -> 8
      [] pc = "except"   -> 9
      [] OTHER           -> 10

\* request r has run the statements of place stage to their end
Passed(r, stage) ==
    Rank(IF req[r].pc \in {"except", "done", "crashed"} THEN req[r].at ELSE req[r].pc)
        > Rank(stage)

\* the pages value the body of r carries (the default when it carries none)
PagesOf(r) ==
    IF req[r].body.pages.kind = "omitted" THEN DefaultPages ELSE req[r].body.pages.val

InRange(n) == n \in MinPages..MaxPages

InsideOutDir(path) ==
    /\ Len(path) > 2
    /\ path[1] = <<"m", "n", "t">>
    /\ path[2] = <<"d", "a", "t", "a">>

\* C2: whatever filename the request carries, every file written and every
\* file_path returned lies inside the output directory /mnt/data.
C2_WritesStayInOutDir ==
    /\ \A p \in DOMAIN files : InsideOutDir(p)
    /\ \A r \in Reqs :
          req[r].response.code = 200 =>
              InsideOutDir(Resolve(req[r].response.file_path, dirs).path)

\* the last four characters are ".pdf" in any letter case
HasPdfExtension(s) ==
    /\ Len(s) >= 4
    /\ s[Len(s) - 3] = "."
    /\ s[Len(s) - 2] \in {"p", "P"}
    /\ s[Len(s) - 1] \in {"d", "D"}
    /\ s[Len(s)] \in {"f", "F"}

\* C3: for a non-empty filename, ".pdf" is appended exactly when the name does
\* not end in ".pdf" in any letter case; "report" gives "report.pdf",
\* "report.pdf" stays, and resolving a resolved name changes nothing.
C3_ExtensionOnce ==
    \A r \in Reqs :
        LET f == req[r].body.filename
            name == req[r].safe_name
        IN  (Passed(r, "name") /\ f.kind = "str" /\ f.val # <<>>) =>
                /\ name = IF HasPdfExtension(f.val) THEN f.val ELSE f.val \o PdfExt
                /\ f.val = <<"r","e","p","o","r","t">> =>
                      name = <<"r","e","p","o","r","t",".","p","d","f">>
                /\ f.val = <<"r","e","p","o","r","t",".","p","d","f">> => name = f.val
                /\ SafeName(Str(name)) = name

C3_Witness ==
    \E r \in Reqs :
        /\ req[r].body.filename = Str(<<".", "P", "d", "f">>)
        /\ req[r].pc = "done"
        /\ req[r].response.code = 200
        /\ req[r].safe_name = <<".", "P", "d", "f">>

\* C4: a filename that is None, empty or left out resolves to the default
\* name, and the file_path is that name joined to the output directory.
C4_DefaultName ==
    \A r \in Reqs :
        LET f == req[r].body.filename
            path == OutDir \o <<"/">> \o DefaultFilename
        IN  (f \in {Omitted, Null, Str(<<>>)}) =>
                /\ Passed(r, "name") => req[r].safe_name = DefaultFilename
                /\ Passed(r, "makedirs") => req[r].file_path = path
                /\ req[r].response.code = 200 => req[r].response.file_path = path

C4_Witness ==
    \E r \in Reqs :
        /\ req[r].body.filename = Str(<<>>)
        /\ req[r].response.code = 200
        /\ req[r].response.file_path = OutDir \o <<"/">> \o DefaultFilename

\* C5: a request whose pages value is outside 1..200 is rejected before the
\* handler body runs: it builds no content, creates no directory, writes no
\* file, and gets a client error, never ok.
C5_RejectedBeforeHandler ==
    /\ [](\A r \in Reqs :
            (req[r].pc # "idle" /\ ~InRange(PagesOf(r))) =>
                /\ req[r].pc \in {"validate", "done"}
                /\ req[r].content = <<>>
                /\ req[r].pc = "done" => req[r].response.code = 422)
    /\ [][\A r \in Reqs :
            (req[r].pc # "idle" /\ ~InRange(PagesOf(r))) =>
                (dirs' = dirs /\ files' = files)]_vars

C5_Witness ==
    \E r \in Reqs :
        /\ PagesOf(r) = MaxPages + 1
        /\ req[r].pc = "done"
        /\ req[r].response.code = 422
        /\ files = <<>>

\* C6: an exception raised in the handler ends the request with status 500
\* and the exception's message as detail; ok is returned only after the
\* document was written; no place of the handler runs a second time.
C6_FailureIsTerminal ==
    /\ [](\A r \in Reqs :
            /\ req[r].pc # "crashed"
            /\ (req[r].pc = "done" /\ req[r].exc # NoExc) =>
                  /\ req[r].response.code = 500
                  /\ req[r].response.detail = req[r].exc.msg
            /\ req[r].response.code = 200 =>
                  /\ req[r].exc = NoExc
                  /\ req[r].fd \in DOMAIN lastDone
                  /\ lastDone[req[r].fd].data = PdfData(req[r].content))
    /\ [][\A r \in Reqs :
            (req'[r] # req[r] /\ req[r].pc # "done") =>
                Rank(req'[r].pc) > Rank(req[r].pc)]_vars

C6_Witness ==
    \E r \in Reqs :
        /\ req[r].pc = "done"
        /\ req[r].exc.cls = "FileNotFoundError"
        /\ req[r].response.code = 500
        /\ req[r].response.detail = req[r].exc.msg
        /\ files = <<>>

\* C7: GET /test always returns a response and never raises; a failed import
\* shows a not-available "(x)" text, a failed listing the separate
\* "Connected but Error" text, a working database "Connected & Working".
C7_ProbeNeverRaises ==
    LET d == probe.response.database IN
    /\ probe.pc # "raised"
    /\ probe.pc # "done" => ENABLED NextProbe
    /\ probe.pc = "done" =>
          /\ database.import_exc # NoExc =>
                d.text \in {"(x) Database module not found (run enable-database first)",
                            "(x) Error: "}
          /\ (database.import_exc = NoExc /\ database.db_none) =>
                d.text = "(!)  Available but not initialized"
          /\ (database.import_exc = NoExc /\ ~database.db_none
                /\ database.list_exc # NoExc) =>
                d.text = "(!)  Connected but Error: "
          /\ (database.import_exc = NoExc /\ ~database.db_none
                /\ database.list_exc = NoExc) =>
                d.text = "(ok) Connected & Working"

C7_Witness ==
    /\ probe.pc = "done"
    /\ database.list_exc # NoExc
    /\ Len(database.list_exc.msg) > ErrShown
    /\ probe.response.database.text = "(!)  Connected but Error: "
    /\ Len(probe.response.database.err) = ErrShown

\* the data of the request whose write to path finished last is unspoiled,
\* and no request holds path open
Settled(path) ==
    /\ lastDone[path].clean
    /\ \A r \in Reqs : ~(req[r].pc = "write" /\ req[r].fd = path)

\* C8: whatever the interleaving of requests that resolve to one path, once
\* no write to it is under way the file holds the output of the request
\* whose write finished last.
C8_LastWriteWins ==
    \A p \in DOMAIN lastDone : Settled(p) => files[p] = lastDone[p].data

\* the number of line feeds among the first n characters of s
LineFeeds(s, n) == Cardinality({j \in 1..n : s[j] = "\n"})

\* C9: in the section markup every line feed of section_body stands as
\* "<br/>", one per line feed and in its place, every other character is
\* unchanged, and the body part holds no line feed.
C9_LineFeedsBecomeBreaks ==
    \A r \in Reqs :
        Passed(r, "content") =>
            LET body == req[r].payload.section_body
                html == req[r].content[3].text
                from == Len(SectionHead) + Len(req[r].payload.section_title)
                            + Len(SectionMid)
                part == SubSeq(html, from + 1, Len(html) - Len(SectionTail))
                At(i) == i + 4 * LineFeeds(body, i - 1)
            IN  /\ Len(part) = Len(body) + 4 * LineFeeds(body, Len(body))
                /\ \A i \in 1..Len(part) : part[i] # "\n"
                /\ \A i \in 1..Len(body) :
                      IF body[i] = "\n"
                      THEN SubSeq(part, At(i), At(i) + 4) = BrMarkup
                      ELSE part[At(i)] = body[i]

C9_Witness ==
    \E r \in Reqs :
        /\ req[r].payload.section_body = <<"a", "\n", "\n", "<">>
        /\ req[r].response.code = 200
        /\ Len(req[r].content[3].text)
              = Len(SectionHead) + 1 + Len(SectionMid) + 12 + Len(SectionTail)

\* the environment variable is set to a non-empty value
EnvSet(name) == name \in DOMAIN environ /\ Len(environ[name]) > 0

\* C10: in every response of GET /test, database_url and database_name are
\* "Set" or "Not Set" by the environment variables alone; nothing assigned
\* earlier in the probe is left in them.
C10_EnvFieldsFromEnvironment ==
    probe.pc = "done" =>
        /\ probe.response.database_url
              = IF EnvSet("DATABASE_URL") THEN "(ok) Set" ELSE "(x) Not Set"
        /\ probe.response.database_name
              = IF EnvSet("DATABASE_NAME") THEN "(ok) Set" ELSE "(x) Not Set"

C10_Witness ==
    /\ probe.pc = "done"
    /\ probe.response.connection_status = "Connected"
    /\ database.has_name
    /\ probe.response.database_url = "(x) Not Set"
    /\ probe.response.database_name = "(ok) Set"

=============================================================================
